---- MODULE Spec2Model ----
(***************************************************************************)
(* Model of scripts/debug-server.py: the read-only debug dashboard server  *)
(* of claude-threads.  The module covers the Location Resolver             *)
(* (find_data_dir), the Read Access Layer (get_db, query_db, scalar_db,    *)
(* is_pid_running, read_log_file), the Request Router (DebugHandler) and   *)
(* the script of the dashboard page it serves (fetchAPI, the refresh*      *)
(* functions, selectThread, showLog and the auto-refresh timer).           *)
(*                                                                         *)
(* Spec follows the server under requests and changes made to the store,   *)
(* the logs and the pid files by the orchestrator; a request that reaches  *)
(* the store is also followed step by step (BeginGET, ConnectGET,          *)
(* FinishGET) with the store file removable in between.  SpecClient        *)
(* follows one open page: timer ticks, clicks, and the responses to the    *)
(* fetches in flight arriving in any order.                                *)
(*                                                                         *)
(* Strings that the code takes apart (request paths, thread ids) are       *)
(* sequences of tokens.  The token alphabet is "/", "api", "thread",       *)
(* "logs", "status", "threads", ... and id atoms such as "t1"; no token is *)
(* a concatenation of others and no pattern the code searches for          *)
(* ("/api/thread/", "/logs") can straddle a token boundary, so prefix,     *)
(* suffix and substring tests on token sequences agree with the same tests *)
(* on the character strings they spell.                                    *)
(***************************************************************************)
EXTENDS Integers, Sequences, FiniteSets, Bags, TLC

VARIABLES
    environ,      \* value of CT_DATA_DIR in the process environment
    localExists,  \* does ./.claude-threads exist
    homeExists,   \* does ~/.claude-threads exist
    boot,         \* the environment and filesystem as they were at process start
    DATA_DIR,     \* module global, set once by find_data_dir()
    db,           \* <DATA_DIR>/threads.db : its condition and its tables
    logs,         \* <DATA_DIR>/logs/orchestrator.log and thread-t1.log
    pids,         \* <DATA_DIR>/orchestrator.pid and api-server.pid
    phase,        \* "idle" | "connecting" | "connected" | "responded": the serve loop
    req,          \* the request being served
    resp,         \* what do_GET did with it
    currentLogType,    \* page script global: 'orchestrator' | 'thread'
    selectedThreadId,  \* page script global: null or the id of the clicked row
    countdown,         \* page script global: ticks to the next refresh round
    dom,          \* the document: the content of each region the script writes
    inflight,     \* the calls of fetchAPI awaiting their response, a bag
    clock,        \* seconds since the page was loaded
    used          \* clicks of the user, failed fetches, changes of the store so far

serverVars == <<environ, localExists, homeExists, boot, DATA_DIR, db, logs, pids,
                phase, req, resp>>
pageVars == <<currentLogType, selectedThreadId, countdown, dom, inflight, clock,
              used>>
vars == <<serverVars, pageVars>>

----------------------------------------------------------------------------
(* Bounds of the model                                                     *)

\* lines (rows) by which the long log files (the big events table) exceed
\* the ceiling of their route
LogExcess == 2
EventExcess == 2
\* length of the short orchestrator log ("a log file of 10 lines")
TestLogLen == 10
\* the largest count a request asks for
HugeCount == 999999
\* the page is followed for MaxTicks timer ticks and MaxEvents events: clicks
\* of the user, fetches that fail, changes of the store
MaxTicks == 3
MaxEvents == 2

(* Program constants                                                       *)
LogsCeiling == 1000
ThreadLogsCeiling == 500
EventsCeiling == 500
ThreadsLimit == 100
DefaultLogLines == 100
DefaultThreadLogLines == 50
DefaultEventLimit == 50

----------------------------------------------------------------------------
(* Python built-ins used by the code                                       *)

Min(a, b) == IF a <= b THEN a ELSE b
Max(a, b) == IF a >= b THEN a ELSE b

\* str.startswith / str.endswith
startswith(s, p) == Len(s) >= Len(p) /\ SubSeq(s, 1, Len(p)) = p
endswith(s, p) == Len(s) >= Len(p) /\ SubSeq(s, Len(s) - Len(p) + 1, Len(s)) = p

\* str.replace(old, ''): every non-overlapping occurrence, left to right
RECURSIVE str_remove(_, _)
str_remove(s, old) ==
    IF Len(s) < Len(old) \/ Len(old) = 0 THEN s
    ELSE IF startswith(s, old)
         THEN str_remove(SubSeq(s, Len(old) + 1, Len(s)), old)
         ELSE <<Head(s)>> \o str_remove(Tail(s), old)

\* seq[start:] with Python's treatment of negative and out-of-range starts
SliceFrom(s, start) ==
    LET i == IF start < 0 THEN Max(Len(s) + start, 0) ELSE Min(start, Len(s))
    IN  SubSeq(s, i + 1, Len(s))

\* the outcome of a call: a returned value or a raised exception
Ret(v) == [raised |-> FALSE, exc |-> "", val |-> v]
Raise(e) == [raised |-> TRUE, exc |-> e, val |-> <<>>]

----------------------------------------------------------------------------
(* The monitored state: what the external orchestrator leaves on disk      *)

\* thread ids, as token sequences
T1 == <<"t1">>
IdEmpty == <<>>
IdNone == <<"does-not-exist">>
IdLogs == <<"logs">>                                 \* 'logs'
IdSlashLogs == <<"t1", "/", "logs">>                 \* 't1/logs'
IdMidLogs == <<"t1", "/", "logs", "x">>              \* 't1/logsx'
IdApiThread == <<"/", "api", "/", "thread", "/", "t1">>  \* '/api/thread/t1'
Ids == {T1, <<"t2">>, IdEmpty, IdNone, IdLogs, IdSlashLogs, IdMidLogs, IdApiThread}

Statuses == {"created", "ready", "running", "waiting", "sleeping", "blocked",
             "completed", "failed"}

ThreadRow(id, status, ts) == [id |-> id, status |-> status, updated_at |-> ts]
EventRow(i, p, ts) == [id |-> i, processed |-> p, timestamp |-> ts]
WorktreeRow(i, tid, ts) == [id |-> i, thread_id |-> tid, created_at |-> ts]

NoRows == <<>>
E2EThreads == <<ThreadRow(T1, "running", 1)>>
FixtureThreads ==
    << ThreadRow(T1, "running", 5), ThreadRow(<<"t2">>, "running", 3),
       ThreadRow(<<"t3">>, "ready", 4), ThreadRow(<<"t4">>, "completed", 1),
       ThreadRow(<<"t5">>, "failed", 2) >>
OddIdThreads ==
    << ThreadRow(T1, "ready", 1), ThreadRow(IdLogs, "running", 2),
       ThreadRow(IdSlashLogs, "waiting", 3), ThreadRow(IdMidLogs, "blocked", 4),
       ThreadRow(IdApiThread, "sleeping", 5) >>

FewEvents == << EventRow(1, 0, 20), EventRow(2, 1, 30), EventRow(3, 0, 10) >>
ManyEvents ==
    [i \in 1..(EventsCeiling + EventExcess) |-> EventRow(i, i % 2, i)]

FewWorktrees == << WorktreeRow(1, T1, 2), WorktreeRow(2, <<"gone">>, 1) >>

\* threads.db: "absent" (no file), "ok", "unopenable" (sqlite3.connect raises:
\* a directory, no permission), "failing" (connect succeeds, every statement
\* raises: not a database, locked, no such table), "created" (the empty file
\* sqlite3.connect leaves where there was none)
Store(st, t, e, w) == [state |-> st, threads |-> t, events |-> e, worktrees |-> w]
AbsentStore == Store("absent", NoRows, NoRows, NoRows)
DbScenarios ==
    { AbsentStore,
      Store("unopenable", FixtureThreads, FewEvents, FewWorktrees),
      Store("failing", E2EThreads, FewEvents, NoRows),
      Store("ok", NoRows, NoRows, NoRows),
      Store("ok", E2EThreads, FewEvents, FewWorktrees),
      Store("ok", FixtureThreads, NoRows, FewWorktrees),
      Store("ok", OddIdThreads, FewEvents, NoRows),
      Store("ok", E2EThreads, ManyEvents, NoRows) }

\* a log file: its lines are numbered, line i standing for the text of line i
Numbered(n) == [i \in 1..n |-> i]
File(lines) == [st |-> "ok", lines |-> lines]
MissingFile == [st |-> "missing", lines |-> <<>>]
UnreadableFile == [st |-> "unreadable", lines |-> <<>>]
Logs(o, t) == [orch |-> o, thread |-> t]
AbsentLogs == Logs(MissingFile, MissingFile)
LogScenarios ==
    { AbsentLogs,
      Logs(UnreadableFile, UnreadableFile),
      Logs(File(Numbered(0)), MissingFile),
      Logs(File(Numbered(TestLogLen)), File(Numbered(2))),
      Logs(File(Numbered(LogsCeiling + LogExcess)),
           File(Numbered(ThreadLogsCeiling + LogExcess))) }

\* a PID file and the process table of the host
PidInt(n) == [k |-> "int", v |-> n]
PidText == [k |-> "text", v |-> 0]
PidMissing == [k |-> "missing", v |-> 0]
Procs == [own |-> {4242}, foreign |-> {1}, groups |-> {4242}]
Pids(o, a) == [orchestrator |-> o, api |-> a]
AbsentPids == Pids(PidMissing, PidMissing)
PidScenarios ==
    { AbsentPids,
      Pids(PidInt(4242), PidInt(4243)),
      Pids(PidText, PidInt(1)),
      Pids(PidInt(0), PidInt(-4242)) }

----------------------------------------------------------------------------
(* Location Resolver                                                       *)

NoEnv == "<unset>"
EnvValues == {NoEnv, "", "/srv/ct"}
LocalDir == ".claude-threads"
HomeDir == "~/.claude-threads"

\* find_data_dir with the home directory looked at before the working directory
find_data_dir_homefirst(env, local, home) ==
    IF env # NoEnv /\ env # "" THEN env
    ELSE IF home THEN HomeDir
    ELSE LocalDir

\* find_data_dir(): os.environ.get() is falsy for an unset and for an empty
\* variable
find_data_dir(env, local, home) ==
    IF env # NoEnv /\ env # "" THEN env
    ELSE IF local THEN LocalDir
    ELSE IF home THEN HomeDir
    ELSE LocalDir

\* a read of the module global DATA_DIR (and of DB_PATH, derived from it once)
DataRoot == DATA_DIR

----------------------------------------------------------------------------
(* Read Access Layer                                                       *)

\* the fixed statements
SqlCountThreads == "SELECT COUNT(*) FROM threads"
SqlCountRunning == "SELECT COUNT(*) FROM threads WHERE status = 'running'"
SqlCountReady == "SELECT COUNT(*) FROM threads WHERE status = 'ready'"
SqlCountPending == "SELECT COUNT(*) FROM events WHERE processed = 0"
SqlThreads == "SELECT ... FROM threads ORDER BY updated_at DESC LIMIT 100"
SqlThreadById == "SELECT * FROM threads WHERE id = ?"
SqlEvents == "SELECT ... FROM events ORDER BY timestamp DESC LIMIT ?"
SqlWorktrees == "SELECT ... FROM worktrees w LEFT JOIN threads t ... ORDER BY w.created_at DESC"

\* COUNT(*) of the rows whose index is in the set sel
CountRows(sel) == Cardinality(sel)

\* ORDER BY key DESC (rows of equal key stay in table order).  A table whose
\* keys already ascend strictly is read backwards; any other is ranked.
Reversed(rows) == [k \in 1..Len(rows) |-> rows[Len(rows) + 1 - k]]
Ranked(rows, key) ==
    LET n == Len(rows)
        Rank(i) == Cardinality({j \in 1..n :
                       \/ rows[j][key] > rows[i][key]
                       \/ rows[j][key] = rows[i][key] /\ j < i}) + 1
    IN  [k \in 1..n |-> rows[CHOOSE i \in 1..n : Rank(i) = k]]
OrderByDesc(rows, key) ==
    IF \A i \in 1..(Len(rows) - 1) : rows[i][key] < rows[i + 1][key]
    THEN Reversed(rows)
    ELSE Ranked(rows, key)

\* LIMIT k: SQLite reads a negative LIMIT as no limit
Limit(rows, k) == IF k < 0 THEN rows ELSE SubSeq(rows, 1, Min(k, Len(rows)))

\* LEFT JOIN threads t ON w.thread_id = t.id, thread columns NULL without a match
JoinThread(w) ==
    LET m == {i \in DOMAIN db.threads : db.threads[i].id = w.thread_id}
    IN  [id |-> w.id, thread_id |-> w.thread_id,
         thread_status |-> IF m = {} THEN "NULL"
                           ELSE db.threads[CHOOSE i \in m : TRUE].status]

IsRunning_ready(r) == r.status = "ready"   \* the WHERE clause of the next count
IsRunning(r) == r.status = "running"
IsReady(r) == r.status = "ready"
IsPending(r) == r.processed = 0

\* conn.execute(sql, params) followed by fetchall()/fetchone(): the rows, or the
\* exception sqlite3 raises (a file sqlite3.connect has just created is empty:
\* no such table)
execute(sql, params) ==
    IF db.state # "ok" THEN Raise("sqlite3.Error")
    ELSE Ret(CASE sql = SqlCountThreads -> << <<CountRows(DOMAIN db.threads)>> >>
               [] sql = SqlCountRunning -> << <<CountRows({i \in DOMAIN db.threads : IsRunning(db.threads[i])})>> >>
               [] sql = SqlCountReady -> << <<CountRows({i \in DOMAIN db.threads : IsReady(db.threads[i])})>> >>
               [] sql = SqlCountPending -> << <<CountRows({i \in DOMAIN db.events : IsPending(db.events[i])})>> >>
               [] sql = SqlThreads ->
                    Limit(OrderByDesc(db.threads, "updated_at"), ThreadsLimit)
               [] sql = SqlThreadById ->
                    LET HasId(r) == r.id = params[1] IN SelectSeq(db.threads, HasId)
               [] sql = SqlEvents ->
                    Limit(OrderByDesc(db.events, "timestamp"), params[1])
               [] sql = SqlWorktrees ->
                    LET w == OrderByDesc(db.worktrees, "created_at")
                    IN  [i \in 1..Len(w) |-> JoinThread(w[i])])

\* get_db without the existence test: sqlite3.connect() on whatever is there
get_db_connect ==
    IF db.state = "unopenable" THEN Raise("sqlite3.OperationalError") ELSE Ret("conn")

\* get_db(): None without a store file, else sqlite3.connect(), which raises
\* when the file cannot be opened
get_db ==
    IF db.state = "absent" THEN Ret("None")
    ELSE IF db.state = "unopenable" THEN Raise("sqlite3.OperationalError")
    ELSE Ret("conn")

\* one call of a Read Access Layer operation: its outcome and the connections
\* and file handles it opened and closed (args: the statement and parameters, or the file and count)
Call(op, args, r, opened, closed) ==
    [op |-> op, args |-> args, raised |-> r.raised, exc |-> r.exc, val |-> r.val,
     opened |-> opened, closed |-> closed]

\* query_db closing the connection after the rows are read, without finally
query_db_noclose(sql, params) ==
    LET conn == get_db IN
    IF conn.raised THEN Call("query_db", <<sql, params>>, conn, 0, 0)
    ELSE IF conn.val = "None" THEN Call("query_db", <<sql, params>>, Ret(<<>>), 0, 0)
    ELSE LET cur == execute(sql, params) IN
         IF cur.raised THEN Call("query_db", <<sql, params>>, Ret(<<>>), 1, 0)
         ELSE Call("query_db", <<sql, params>>, Ret(cur.val), 1, 1)

\* query_db(sql, params): [] without a store, the rows, [] on any exception of
\* the statement; finally closes the connection get_db opened
query_db(sql, params) ==
    LET conn == get_db IN
    IF conn.raised THEN Call("query_db", <<sql, params>>, conn, 0, 0)
    ELSE IF conn.val = "None" THEN Call("query_db", <<sql, params>>, Ret(<<>>), 0, 0)
    ELSE LET cur == execute(sql, params) IN
         IF cur.raised THEN Call("query_db", <<sql, params>>, Ret(<<>>), 1, 1)
         ELSE Call("query_db", <<sql, params>>, Ret(cur.val), 1, 1)

scalar_db(sql, params) ==
    LET conn == get_db IN
    IF conn.raised THEN Call("scalar_db", <<sql, params>>, conn, 0, 0)
    ELSE IF conn.val = "None" THEN Call("scalar_db", <<sql, params>>, Ret(0), 0, 0)
    ELSE LET cur == execute(sql, params) IN
         IF cur.raised THEN Call("scalar_db", <<sql, params>>, Ret(0), 1, 1)
         ELSE IF cur.val = <<>> THEN Call("scalar_db", <<sql, params>>, Ret(0), 1, 1)
         ELSE Call("scalar_db", <<sql, params>>, Ret(cur.val[1][1]), 1, 1)

\* os.kill(pid, 0)
os_kill(pid) ==
    IF pid > 0 THEN IF pid \in Procs.own THEN Ret("None")
                    ELSE IF pid \in Procs.foreign THEN Raise("PermissionError")
                    ELSE Raise("ProcessLookupError")
    ELSE IF pid = 0 THEN Ret("None")
    ELSE IF (0 - pid) \in Procs.groups THEN Ret("None")
    ELSE Raise("ProcessLookupError")

\* is_pid_running without the os.kill probe: any PID file that parses counts
is_pid_running_noprobe(pid_file) ==
    IF pid_file.k = "missing" THEN Call("is_pid_running", <<pid_file>>, Ret(FALSE), 0, 0)
    ELSE IF pid_file.k = "text" THEN Call("is_pid_running", <<pid_file>>, Ret(FALSE), 1, 1)
    ELSE Call("is_pid_running", <<pid_file>>, Ret(TRUE), 1, 1)

\* is_pid_running(pid_file): with open(pid_file), int(f.read().strip()), then
\* os.kill(pid, 0), True; False on any exception (no file, no number, no such
\* process, not permitted).  The with block closes the file it opened, also
\* when int() raises inside it
is_pid_running(pid_file) ==
    IF pid_file.k = "missing" THEN Call("is_pid_running", <<pid_file>>, Ret(FALSE), 0, 0)
    ELSE IF pid_file.k = "text" THEN Call("is_pid_running", <<pid_file>>, Ret(FALSE), 1, 1)
    ELSE IF os_kill(pid_file.v).raised THEN Call("is_pid_running", <<pid_file>>, Ret(FALSE), 1, 1)
    ELSE Call("is_pid_running", <<pid_file>>, Ret(TRUE), 1, 1)

\* the files under <DATA_DIR>/logs
OrchLogName == <<"orchestrator.log">>
ThreadLogName(thread_id) == <<"thread-">> \o thread_id \o <<".log">>
FileAt(name) ==
    IF name = OrchLogName THEN logs.orch
    ELSE IF name = ThreadLogName(T1) THEN logs.thread
    ELSE MissingFile

\* read_log_file keeping the first lines, all_lines[:lines]
read_log_file_head(name, lines) ==
    LET f == FileAt(name) IN
    IF f.st # "ok" THEN Call("read_log_file", <<name, lines>>, Ret(<<>>), 0, 0)
    ELSE Call("read_log_file", <<name, lines>>,
              Ret(SubSeq(f.lines, 1, Min(Max(lines, 0), Len(f.lines)))), 1, 1)

read_log_file(name, lines) ==
    LET f == FileAt(name) IN
    IF f.st # "ok" THEN Call("read_log_file", <<name, lines>>, Ret(<<>>), 0, 0)
    ELSE Call("read_log_file", <<name, lines>>, Ret(SliceFrom(f.lines, 0 - lines)), 1, 1)

----------------------------------------------------------------------------
(* Request Router: DebugHandler                                            *)

RootPath == <<"/">>
IndexPath == <<"/", "index.html">>
StatusPath == <<"/", "api", "/", "status">>
ThreadsPath == <<"/", "api", "/", "threads">>
EventsPath == <<"/", "api", "/", "events">>
WorktreesPath == <<"/", "api", "/", "worktrees">>
LogsPath == <<"/", "api", "/", "logs">>
ThreadPrefix == <<"/", "api", "/", "thread", "/">>
LogsSuffix == <<"/", "logs">>
DetailPath(id) == ThreadPrefix \o id
ThreadLogsPath(id) == ThreadPrefix \o id \o LogsSuffix

\* paths outside the route table
StrayPaths == { <<"/", "api", "/", "thread">>, <<"/", "api", "/", "nope">>,
                <<"/", "api", "/", "logs", "/">> }
Paths ==
    {RootPath, IndexPath, StatusPath, ThreadsPath, EventsPath, WorktreesPath, LogsPath}
    \cup StrayPaths
    \cup {DetailPath(id) : id \in Ids} \cup {ThreadLogsPath(id) : id \in Ids}

\* one query parameter as parse_qs gives it: absent, an integer literal, other text
QAbsent == [k |-> "absent", v |-> 0]
QText == [k |-> "text", v |-> 0]
QInt(n) == [k |-> "int", v |-> n]
Counts == {-1, 0, 3, HugeCount}
QValues == {QAbsent, QText} \cup {QInt(n) : n \in Counts}
Queries == {q \in [lines : QValues, limit : QValues] :
               q.lines = QAbsent \/ q.limit = QAbsent}

\* datetime.utcnow()
Times == {1, 2}

\* int(query.get(key, [default])[0])
int_param(query, key, default) ==
    IF query[key].k = "absent" THEN Ret(default)
    ELSE IF query[key].k = "text" THEN Raise("ValueError")
    ELSE Ret(query[key].v)

\* JSON values
Object(o) == [kind |-> "object", obj |-> o]
Array(a) == [kind |-> "array", items |-> a]
NoBody == [kind |-> "none"]
NotFoundBody == Object([error |-> "Thread not found"])

\* the calls a handler made: those before and including the first that raised
Made(cs) ==
    LET bad == {i \in DOMAIN cs : cs[i].raised} IN
    IF bad = {} THEN cs
    ELSE SubSeq(cs, 1, CHOOSE i \in bad : \A j \in bad : i <= j)

\* a handler's outcome: its return value, or the exception of the call that raised
Handled(cs, val) ==
    LET made == Made(cs) IN
    IF made # <<>> /\ made[Len(made)].raised
    THEN [raised |-> TRUE, exc |-> made[Len(made)].exc, val |-> NoBody, calls |-> made]
    ELSE [raised |-> FALSE, exc |-> "", val |-> val, calls |-> made]

api_status(now) ==
    LET total == scalar_db(SqlCountThreads, <<>>)
        running == scalar_db(SqlCountRunning, <<>>)
        ready == scalar_db(SqlCountReady, <<>>)
        pending == scalar_db(SqlCountPending, <<>>)
        orch == is_pid_running(pids.orchestrator)
        api == is_pid_running(pids.api)
    IN  Handled(<<total, running, ready, pending, orch, api>>,
                Object([threads |-> [total |-> total.val, running |-> running.val,
                                     ready |-> ready.val],
                        events_pending |-> pending.val,
                        orchestrator_running |-> orch.val,
                        api_running |-> api.val,
                        timestamp |-> now]))

api_threads ==
    LET rows == query_db(SqlThreads, <<>>) IN Handled(<<rows>>, Array(rows.val))

api_thread_detail(thread_id) ==
    LET rows == query_db(SqlThreadById, <<thread_id>>)
    IN  Handled(<<rows>>, IF rows.val # <<>> THEN Object(rows.val[1]) ELSE NotFoundBody)

api_thread_logs(thread_id, lines) ==
    LET content == read_log_file(ThreadLogName(thread_id), Min(lines, ThreadLogsCeiling))
    IN  Handled(<<content>>, Object([thread_id |-> thread_id, lines |-> lines,
                                     content |-> content.val]))

api_events(limit) ==
    LET rows == query_db(SqlEvents, <<Min(limit, EventsCeiling)>>)
    IN  Handled(<<rows>>, Array(rows.val))

api_worktrees ==
    LET rows == query_db(SqlWorktrees, <<>>) IN Handled(<<rows>>, Array(rows.val))

api_logs(lines) ==
    LET content == read_log_file(OrchLogName, Min(lines, LogsCeiling))
    IN  Handled(<<content>>, Object([file |-> "orchestrator.log", lines |-> lines,
                                     content |-> content.val]))

\* What do_GET did with a request.  branch: the arm of the if/elif chain taken;
\* invoked: whether the arm's handler was called; sent: whether a response was
\* written (an exception leaving do_GET closes the connection with none).
Outcome(branch, invoked, sent, status, ctype, cors, body, tid, n, exc, calls, root) ==
    [branch |-> branch, invoked |-> invoked, sent |-> sent, status |-> status,
     ctype |-> ctype, cors |-> cors, body |-> body, thread_id |-> tid, n |-> n,
     exc |-> exc, calls |-> calls, root |-> root]

\* self.send_html(DASHBOARD_HTML)
send_html == Outcome("index", TRUE, TRUE, 200, "text/html; charset=utf-8", FALSE,
                     [kind |-> "html"], <<>>, 0, "", <<>>, "")

\* self.send_error(404)
send_error_404 == Outcome("none", FALSE, TRUE, 404, "text/html;charset=utf-8", FALSE,
                          [kind |-> "error page"], <<>>, 0, "", <<>>, "")

\* self.send_json(self.api_xxx(...)), h being what api_xxx did
send_json(branch, h, tid, n) ==
    IF h.raised
    THEN Outcome(branch, TRUE, FALSE, 0, "", FALSE, NoBody, tid, n, h.exc, h.calls, DataRoot)
    ELSE Outcome(branch, TRUE, TRUE, 200, "application/json", TRUE, h.val, tid, n, "",
                 h.calls, DataRoot)

\* int() raised before the handler was called
ParseAbort(branch, tid, exc) ==
    Outcome(branch, FALSE, FALSE, 0, "", FALSE, NoBody, tid, 0, exc, <<>>, "")

\* the chain with the thread prefix tested without its final slash
Route_loose(path) ==
    IF path = RootPath \/ path = IndexPath THEN "index"
    ELSE IF path = StatusPath THEN "api_status"
    ELSE IF path = ThreadsPath THEN "api_threads"
    ELSE IF startswith(path, <<"/", "api", "/", "thread">>) /\ endswith(path, LogsSuffix)
         THEN "api_thread_logs"
    ELSE IF startswith(path, <<"/", "api", "/", "thread">>) THEN "api_thread_detail"
    ELSE IF path = EventsPath THEN "api_events"
    ELSE IF path = WorktreesPath THEN "api_worktrees"
    ELSE IF path = LogsPath THEN "api_logs"
    ELSE "none"

\* the if/elif chain of do_GET: the arm a path selects
Route(path) ==
    IF path = RootPath \/ path = IndexPath THEN "index"
    ELSE IF path = StatusPath THEN "api_status"
    ELSE IF path = ThreadsPath THEN "api_threads"
    ELSE IF startswith(path, ThreadPrefix) /\ endswith(path, LogsSuffix)
         THEN "api_thread_logs"
    ELSE IF startswith(path, ThreadPrefix) THEN "api_thread_detail"
    ELSE IF path = EventsPath THEN "api_events"
    ELSE IF path = WorktreesPath THEN "api_worktrees"
    ELSE IF path = LogsPath THEN "api_logs"
    ELSE "none"

do_GET(path, query, now) ==
    LET arm == Route(path) IN
    CASE arm = "index" -> send_html
      [] arm = "api_status" -> send_json(arm, api_status(now), <<>>, 0)
      [] arm = "api_threads" -> send_json(arm, api_threads, <<>>, 0)
      [] arm = "api_thread_logs" ->
            LET thread_id == str_remove(str_remove(path, ThreadPrefix), LogsSuffix)
                lines == int_param(query, "lines", DefaultThreadLogLines)
            IN  IF lines.raised THEN ParseAbort(arm, thread_id, lines.exc)
                ELSE send_json(arm, api_thread_logs(thread_id, lines.val),
                               thread_id, lines.val)
      [] arm = "api_thread_detail" ->
            LET thread_id == str_remove(path, ThreadPrefix)
            IN  send_json(arm, api_thread_detail(thread_id), thread_id, 0)
      [] arm = "api_events" ->
            LET limit == int_param(query, "limit", DefaultEventLimit)
            IN  IF limit.raised THEN ParseAbort(arm, <<>>, limit.exc)
                ELSE send_json(arm, api_events(limit.val), <<>>, limit.val)
      [] arm = "api_worktrees" -> send_json(arm, api_worktrees, <<>>, 0)
      [] arm = "api_logs" ->
            LET lines == int_param(query, "lines", DefaultLogLines)
            IN  IF lines.raised THEN ParseAbort(arm, <<>>, lines.exc)
                ELSE send_json(arm, api_logs(lines.val), <<>>, lines.val)
      [] OTHER -> send_error_404

----------------------------------------------------------------------------
(* The dashboard page: the script of DASHBOARD_HTML running in a browser   *)

\* setInterval period in ticks of one second: countdown = 3
RefreshPeriod == 3
\* the counts the page asks for
RefreshEventsLimit == 30
OrchLogLines == 200
ThreadLogLines == 100
\* seconds in a minute, an hour, a day
Minute == 60
Hour == 3600
Day == 86400

\* JavaScript values: null, a string
JsNull == [kind |-> "null"]
Str(s) == [kind |-> "string", v |-> s]
\* if (value): null and '' are falsy
Truthy(value) == value.kind # "null" /\ value.v # <<>>

\* what the page's data directory holds: two threads, and what is left of them
\* once the orchestrator has cleaned up (updated_at in seconds from page load)
T2 == <<"t2">>
PageThreads == << ThreadRow(T1, "running", 5), ThreadRow(T2, "ready", -59) >>
PageThreadsLater == << ThreadRow(T1, "completed", 6) >>
PageStore == Store("ok", PageThreads, FewEvents, FewWorktrees)
PageStoreLater == Store("ok", PageThreadsLater, FewEvents, NoRows)

\* a call of fetchAPI in flight: the function awaiting it and the endpoint
Query(lines, limit) == [lines |-> lines, limit |-> limit]
Fetch(fn, path, query) == [fn |-> fn, path |-> path, query |-> query]
FStatus == Fetch("refreshStatus", StatusPath, Query(QAbsent, QAbsent))
FThreads == Fetch("refreshThreads", ThreadsPath, Query(QAbsent, QAbsent))
FWorktrees == Fetch("refreshWorktrees", WorktreesPath, Query(QAbsent, QAbsent))
FEvents == Fetch("refreshEvents", EventsPath, Query(QAbsent, QInt(RefreshEventsLimit)))
FLogs == Fetch("refreshLogs", LogsPath, Query(QInt(OrchLogLines), QAbsent))
FThreadLogs(id) ==
    Fetch("refreshLogs", ThreadLogsPath(id), Query(QInt(ThreadLogLines), QAbsent))
FDetail(id) == Fetch("selectThread", DetailPath(id), Query(QAbsent, QAbsent))

\* fetchAPI(endpoint): the parsed JSON body of the server's answer; null when
\* fetch() rejects (net = "down", or the server closed the connection without
\* a response) or the body is not JSON
fetchAPI(endpoint, net) ==
    LET r == do_GET(endpoint.path, endpoint.query, 1) IN
    IF net = "down" \/ ~r.sent \/ r.ctype # "application/json" THEN JsNull
    ELSE r.body

\* formatTimeAgo(timestamp) at the clock reading now, both in seconds
formatTimeAgo(timestamp, now) ==
    LET diff == now - timestamp IN
    IF diff < 0 THEN [n |-> 0, text |-> "just now"]
    ELSE IF diff < Minute THEN [n |-> diff, text |-> "s ago"]
    ELSE IF diff < Hour THEN [n |-> diff \div Minute, text |-> "m ago"]
    ELSE IF diff < Day THEN [n |-> diff \div Hour, text |-> "h ago"]
    ELSE [n |-> diff \div Day, text |-> "d ago"]

\* one <tr class="thread-row ..."> of the thread table
threadRow(t, selected, now) ==
    [id |-> t.id, selected |-> (Str(t.id) = selected), badge |-> t.status,
     updated |-> formatTimeAgo(t.updated_at, now)]

\* the contents of the page's regions
Placeholder == [kind |-> "placeholder"]
Rows(rows) == [kind |-> "rows", rows |-> rows]
\* the thread table: its rows as they are, with the list they were rendered
\* from and the rows as rendered (a click on a row moves the 'selected' class)
ThreadTable(data, rows) == [kind |-> "rows", rows |-> rows, data |-> data, out |-> rows]
ClickAThread == [kind |-> "Click a thread to view details"]
ThreadNotFound == [kind |-> "Thread not found"]
Detail(thread) == [kind |-> "detail", thread |-> thread]
LoadingLogs == [kind |-> "Loading logs..."]
SelectAThread == [kind |-> "Select a thread to view its logs"]
FailedToLoad == [kind |-> "Failed to load logs"]
NoLogsAvailable(path) == [kind |-> "No logs available", of |-> path]
LogLines(path, lines) == [kind |-> "log", of |-> path, lines |-> lines]

\* the document as served
InitialDom ==
    [stats |-> Placeholder, threads |-> Placeholder, worktrees |-> Placeholder,
     events |-> Placeholder, detail |-> ClickAThread, viewer |-> LoadingLogs,
     countdown |-> RefreshPeriod]

\* colorizeLog(data.content), with the log it was read from
colorizeLog(path, content) ==
    IF content = <<>> THEN NoLogsAvailable(path) ELSE LogLines(path, content)

\* the parts of the refresh functions after their await: what each puts in
\* its region given the fetched data and the region's content so far
refreshStatus_then(data, old) ==
    IF data = JsNull THEN old ELSE [kind |-> "stats", data |-> data.obj]

\* refreshThreads rendering every row without the 'selected' class
refreshThreads_then_plain(data, old, selected, now) ==
    IF data = JsNull THEN old
    ELSE ThreadTable(data.items,
                     [i \in DOMAIN data.items |-> threadRow(data.items[i], JsNull, now)])

refreshThreads_then(data, old, selected, now) ==
    IF data = JsNull THEN old
    ELSE ThreadTable(data.items,
                     [i \in DOMAIN data.items |-> threadRow(data.items[i], selected, now)])

refreshWorktrees_then(data, old) ==
    IF data = JsNull THEN old ELSE Rows(data.items)

refreshEvents_then(data, old) ==
    IF data = JsNull THEN old ELSE Rows(data.items)

selectThread_then(data, old) ==
    IF data = JsNull THEN ThreadNotFound
    ELSE IF "error" \in DOMAIN data.obj THEN ThreadNotFound
    ELSE Detail(data.obj)

refreshLogs_then(path, data, old) ==
    IF data = JsNull THEN FailedToLoad ELSE colorizeLog(path, data.obj.content)

\* refreshLogs up to its await that fetches the thread's log whatever the
\* selection
refreshLogs_call_any(type, selected) ==
    IF type = "orchestrator" THEN <<FLogs>>
    ELSE <<FThreadLogs(IF selected = JsNull THEN <<>> ELSE selected.v)>>

\* refreshLogs up to its await: the fetch it issues, none without a thread
refreshLogs_call(type, selected) ==
    IF type = "orchestrator" THEN <<FLogs>>
    ELSE IF Truthy(selected) THEN <<FThreadLogs(selected.v)>>
    ELSE <<>>

\* ... and what it writes in the viewer before returning
refreshLogs_prompt(type, selected, old) ==
    IF type # "orchestrator" /\ ~Truthy(selected) THEN SelectAThread ELSE old

\* refreshAll awaiting each function before it calls the next
refreshAll_call_serial == <<FStatus>>

\* refreshAll up to its await: Promise.all over the four calls, each of which
\* has run to its own fetch
refreshAll_call == <<FStatus, FThreads, FWorktrees, FEvents>>

----------------------------------------------------------------------------
(* The state machine                                                       *)

NoReq == [path |-> <<>>, query |-> [lines |-> QAbsent, limit |-> QAbsent]]
NoResp == Outcome("", FALSE, FALSE, 0, "", FALSE, NoBody, <<>>, 0, "", <<>>, "")

\* the state of the environment the resolver reads
Surroundings == [environ |-> environ, local |-> localExists, home |-> homeExists]

\* the monitored state of a data directory in use: one running thread
BaseStore == Store("ok", E2EThreads, FewEvents, FewWorktrees)
BaseLogs == Logs(File(Numbered(TestLogLen)), File(Numbered(2)))
BasePids == Pids(PidInt(4242), PidInt(4243))

\* does the directory the resolver chose exist at start
RootExists == \/ DATA_DIR = "/srv/ct"
              \/ DATA_DIR = LocalDir /\ localExists
              \/ DATA_DIR = HomeDir /\ homeExists

\* the fetches of a callback, as a bag
Issued(fetches) == SetToBag({fetches[i] : i \in DOMAIN fetches})

\* no page is open
PageClosed ==
    /\ currentLogType = "orchestrator" /\ selectedThreadId = JsNull
    /\ countdown = RefreshPeriod /\ dom = InitialDom
    /\ inflight = EmptyBag /\ clock = 0 /\ used = 0

\* Server started in a working directory that has a .claude-threads, whatever
\* the orchestrator left in it
Init ==
    /\ environ = NoEnv /\ localExists = TRUE /\ homeExists = FALSE
    /\ boot = Surroundings
    /\ DATA_DIR = find_data_dir(environ, localExists, homeExists)
    /\ db \in DbScenarios /\ logs \in LogScenarios /\ pids \in PidScenarios
    /\ phase = "idle" /\ req = NoReq /\ resp = NoResp
    /\ PageClosed

\* Server started in any environment; the data directory, where it exists,
\* holds the state of one running thread
InitResolver ==
    /\ environ \in EnvValues /\ localExists \in BOOLEAN /\ homeExists \in BOOLEAN
    /\ boot = Surroundings
    /\ DATA_DIR = find_data_dir(environ, localExists, homeExists)
    /\ db = (IF RootExists THEN BaseStore ELSE AbsentStore)
    /\ logs = (IF RootExists THEN BaseLogs ELSE AbsentLogs)
    /\ pids = (IF RootExists THEN BasePids ELSE AbsentPids)
    /\ phase = "idle" /\ req = NoReq /\ resp = NoResp
    /\ PageClosed

\* handle_one_request: one GET, start to end
DoGET ==
    /\ phase = "idle"
    /\ \E path \in Paths, query \in Queries, now \in Times :
          /\ req' = [path |-> path, query |-> query]
          /\ resp' = do_GET(path, query, now)
    /\ phase' = "responded"
    /\ UNCHANGED <<environ, localExists, homeExists, boot, DATA_DIR, db, logs, pids>>
    /\ UNCHANGED pageVars

\* a store file as sqlite3.connect() creates it where none is: empty, no table
CreatedStore == Store("created", NoRows, NoRows, NoRows)
\* does the handler of a request call get_db
ReachesStore(path, query) ==
    LET arm == Route(path) IN
    /\ arm \in {"api_status", "api_threads", "api_thread_detail", "api_events",
                "api_worktrees"}
    /\ arm = "api_events" => ~int_param(query, "limit", DefaultEventLimit).raised

\* A GET whose first get_db() has found DB_PATH.exists() true and has not yet
\* called sqlite3.connect(): the two are separate system calls, and the
\* orchestrator runs between them
BeginGET ==
    /\ phase = "idle"
    /\ db.state # "absent"
    /\ \E path \in Paths, query \in Queries :
          /\ ReachesStore(path, query)
          /\ req' = [path |-> path, query |-> query]
    /\ phase' = "connecting" /\ resp' = NoResp
    /\ UNCHANGED <<environ, localExists, homeExists, boot, DATA_DIR, db, logs, pids>>
    /\ UNCHANGED pageVars

\* the orchestrator removes threads.db while the handler is between the two
ExtRemoveStore ==
    /\ phase = "connecting"
    /\ db.state # "absent"
    /\ db' = AbsentStore
    /\ UNCHANGED <<environ, localExists, homeExists, boot, DATA_DIR, logs, pids,
                   phase, req, resp>>
    /\ UNCHANGED pageVars

\* ... and the GET goes on: sqlite3.connect() opens the file, creating it if
\* it is no longer there
ConnectGET ==
    /\ phase = "connecting"
    /\ db' = (IF db.state = "absent" THEN CreatedStore ELSE db)
    /\ phase' = "connected"
    /\ UNCHANGED <<environ, localExists, homeExists, boot, DATA_DIR, logs, pids,
                   req, resp>>
    /\ UNCHANGED pageVars

\* ... and the handler runs to its end on what it opened
FinishGET ==
    /\ phase = "connected"
    /\ \E now \in Times : resp' = do_GET(req.path, req.query, now)
    /\ phase' = "responded"
    /\ UNCHANGED <<environ, localExists, homeExists, boot, DATA_DIR, db, logs, pids,
                   req>>
    /\ UNCHANGED pageVars

\* shutdown_request: the connection is closed, the server waits for the next
ShutdownRequest ==
    /\ phase = "responded"
    /\ phase' = "idle" /\ req' = NoReq /\ resp' = NoResp
    /\ UNCHANGED <<environ, localExists, homeExists, boot, DATA_DIR, db, logs, pids>>
    /\ UNCHANGED pageVars

\* the orchestrator and its API server, between two requests
ExtStore ==
    /\ phase = "idle"
    /\ \E d \in DbScenarios : d # db /\ db' = d
    /\ UNCHANGED <<environ, localExists, homeExists, boot, DATA_DIR, logs, pids,
                   phase, req, resp>>
    /\ UNCHANGED pageVars

ExtLogs ==
    /\ phase = "idle"
    /\ \E l \in LogScenarios : l # logs /\ logs' = l
    /\ UNCHANGED <<environ, localExists, homeExists, boot, DATA_DIR, db, pids,
                   phase, req, resp>>
    /\ UNCHANGED pageVars

ExtPids ==
    /\ phase = "idle"
    /\ \E p \in PidScenarios : p # pids /\ pids' = p
    /\ UNCHANGED <<environ, localExists, homeExists, boot, DATA_DIR, db, logs,
                   phase, req, resp>>
    /\ UNCHANGED pageVars

\* the environment after start: CT_DATA_DIR reassigned, a convention directory
\* created or removed (a removed or fresh directory holds nothing)
SetEnv ==
    /\ phase = "idle"
    /\ \E v \in EnvValues : v # environ /\ environ' = v
    /\ UNCHANGED <<localExists, homeExists, boot, DATA_DIR, db, logs, pids,
                   phase, req, resp>>
    /\ UNCHANGED pageVars

ToggleLocal ==
    /\ phase = "idle"
    /\ localExists' = ~localExists
    /\ db' = (IF DATA_DIR = LocalDir THEN AbsentStore ELSE db)
    /\ logs' = (IF DATA_DIR = LocalDir THEN AbsentLogs ELSE logs)
    /\ pids' = (IF DATA_DIR = LocalDir THEN AbsentPids ELSE pids)
    /\ UNCHANGED <<environ, homeExists, boot, DATA_DIR, phase, req, resp>>
    /\ UNCHANGED pageVars

ToggleHome ==
    /\ phase = "idle"
    /\ homeExists' = ~homeExists
    /\ db' = (IF DATA_DIR = HomeDir THEN AbsentStore ELSE db)
    /\ logs' = (IF DATA_DIR = HomeDir THEN AbsentLogs ELSE logs)
    /\ pids' = (IF DATA_DIR = HomeDir THEN AbsentPids ELSE pids)
    /\ UNCHANGED <<environ, localExists, boot, DATA_DIR, phase, req, resp>>
    /\ UNCHANGED pageVars

Next ==
    \/ DoGET \/ BeginGET \/ ExtRemoveStore \/ ConnectGET \/ FinishGET
    \/ ShutdownRequest
    \/ ExtStore \/ ExtLogs \/ ExtPids
Spec == Init /\ [][Next]_vars

NextResolver == DoGET \/ ShutdownRequest \/ SetEnv \/ ToggleLocal \/ ToggleHome
SpecResolver == InitResolver /\ [][NextResolver]_vars

----------------------------------------------------------------------------
(* The page, served by a server whose data directory is in use             *)

\* the callback starting its round one tick late: if (countdown < 0)
tick_late(c, type, selected) ==
    LET n == c - 1 IN
    IF n < 0
    THEN [countdown |-> RefreshPeriod, shown |-> n,
          issued |-> refreshAll_call \o
                     (IF type = "orchestrator" THEN refreshLogs_call(type, selected)
                      ELSE <<>>)]
    ELSE [countdown |-> n, shown |-> n, issued |-> <<>>]

\* the setInterval callback on countdown c: the new countdown, the text put in
\* #refresh-countdown, the fetches issued
tick(c, type, selected) ==
    LET n == c - 1 IN
    IF n <= 0
    THEN [countdown |-> RefreshPeriod, shown |-> n,
          issued |-> refreshAll_call \o
                     (IF type = "orchestrator" THEN refreshLogs_call(type, selected)
                      ELSE <<>>)]
    ELSE [countdown |-> n, shown |-> n, issued |-> <<>>]

\* The page just loaded: the script has run refreshAll(); refreshLogs();
\* startAutoRefresh() and no response has arrived
InitClient ==
    /\ environ = NoEnv /\ localExists = TRUE /\ homeExists = FALSE
    /\ boot = Surroundings
    /\ DATA_DIR = find_data_dir(environ, localExists, homeExists)
    /\ db = PageStore /\ logs = BaseLogs /\ pids = BasePids
    /\ phase = "idle" /\ req = NoReq /\ resp = NoResp
    /\ currentLogType = "orchestrator" /\ selectedThreadId = JsNull
    /\ countdown = RefreshPeriod /\ dom = InitialDom
    /\ LET issued == refreshAll_call \o refreshLogs_call(currentLogType, selectedThreadId)
       IN  inflight = Issued(issued)
    /\ clock = 0 /\ used = 0

\* one second passes: the setInterval callback
Tick ==
    /\ clock < MaxTicks
    /\ clock' = clock + 1
    /\ LET t == tick(countdown, currentLogType, selectedThreadId) IN
          /\ countdown' = t.countdown
          /\ dom' = [dom EXCEPT !.countdown = t.shown]
          /\ inflight' = inflight (+) Issued(t.issued)
    /\ UNCHANGED <<currentLogType, selectedThreadId, used>>
    /\ UNCHANGED serverVars

\* a click on a row of the thread table: selectThread(t.id) up to its await
selectThread ==
    /\ used < MaxEvents
    /\ used' = used + 1
    /\ dom.threads.kind = "rows"
    /\ \E i \in DOMAIN dom.threads.rows :
          LET threadId == dom.threads.rows[i].id IN
          /\ selectedThreadId' = Str(threadId)
          /\ dom' = [dom EXCEPT !.threads.rows =
                        [j \in DOMAIN @ |-> [@[j] EXCEPT !.selected = (j = i)]]]
          /\ inflight' = inflight (+) Issued(<<FDetail(threadId)>>)
    /\ UNCHANGED <<currentLogType, countdown, clock>>
    /\ UNCHANGED serverVars

\* a click on Orchestrator, Thread or View Thread Logs: showLog(type)
showLog ==
    /\ used < MaxEvents
    /\ used' = used + 1
    /\ \E type \in {"orchestrator", "thread"} :
          /\ currentLogType' = type
          /\ dom' = [dom EXCEPT
                        !.viewer = refreshLogs_prompt(type, selectedThreadId, @)]
          /\ inflight' = inflight (+) Issued(refreshLogs_call(type, selectedThreadId))
    /\ UNCHANGED <<selectedThreadId, countdown, clock>>
    /\ UNCHANGED serverVars

\* a click on the Refresh button of the log panel: refreshLogs() up to its
\* await (the Refresh buttons of the three tables, which call the functions a
\* round calls, are not followed)
RefreshButton ==
    /\ used < MaxEvents
    /\ used' = used + 1
    /\ inflight' = inflight (+) Issued(refreshLogs_call(currentLogType, selectedThreadId))
    /\ dom' = [dom EXCEPT !.viewer =
                  refreshLogs_prompt(currentLogType, selectedThreadId, @)]
    /\ UNCHANGED <<currentLogType, selectedThreadId, countdown, clock>>
    /\ UNCHANGED serverVars

\* the fetch f settles and the function awaiting it runs to its end
Resume(f) ==
    /\ BagIn(f, inflight)
    /\ \E net \in {"up", "down"} :
          LET data == fetchAPI(f, net) IN
          /\ net = "down" => used < MaxEvents
          /\ used' = (IF net = "down" THEN used + 1 ELSE used)
          /\ inflight' = inflight (-) SetToBag({f})
          /\ dom' =
               CASE f.fn = "refreshStatus" ->
                      [dom EXCEPT !.stats = refreshStatus_then(data, @)]
                 [] f.fn = "refreshThreads" ->
                      [dom EXCEPT !.threads =
                          refreshThreads_then(data, @, selectedThreadId, clock)]
                 [] f.fn = "refreshWorktrees" ->
                      [dom EXCEPT !.worktrees = refreshWorktrees_then(data, @)]
                 [] f.fn = "refreshEvents" ->
                      [dom EXCEPT !.events = refreshEvents_then(data, @)]
                 [] f.fn = "selectThread" ->
                      [dom EXCEPT !.detail = selectThread_then(data, @)]
                 [] f.fn = "refreshLogs" ->
                      [dom EXCEPT !.viewer = refreshLogs_then(f.path, data, @)]
    /\ UNCHANGED <<currentLogType, selectedThreadId, countdown, clock>>
    /\ UNCHANGED serverVars

\* the responses arrive in any order
Response == \E f \in BagToSet(inflight) : Resume(f)

\* the orchestrator, while the page is open: thread t2 is cleaned up, t1 ends
ExtCleanup ==
    /\ used < MaxEvents
    /\ used' = used + 1
    /\ db = PageStore
    /\ db' = PageStoreLater
    /\ UNCHANGED <<environ, localExists, homeExists, boot, DATA_DIR, logs, pids,
                   phase, req, resp>>
    /\ UNCHANGED <<currentLogType, selectedThreadId, countdown, dom, inflight, clock>>

NextClient ==
    Tick \/ selectThread \/ showLog \/ RefreshButton \/ Response \/ ExtCleanup
SpecClient == InitClient /\ [][NextClient]_vars

----------------------------------------------------------------------------
(* Properties                                                              *)

Responded == phase = "responded"
Answered200 == resp.sent /\ resp.status = 200
HasRow(id) == \E i \in DOMAIN db.threads : db.threads[i].id = id
RowOf(id) == db.threads[CHOOSE i \in DOMAIN db.threads : db.threads[i].id = id]
CallsOf(ops) == {i \in DOMAIN resp.calls : resp.calls[i].op \in ops}

\* C1: whatever integer is asked for as lines or limit, and however long the
\* log file or the events table, /api/logs returns at most 1000 lines,
\* /api/thread/{id}/logs at most 500 lines and /api/events at most 500 events.
C1_CeilingRespected ==
    (Responded /\ resp.sent) =>
        /\ resp.branch = "api_logs" => Len(resp.body.obj.content) <= LogsCeiling
        /\ resp.branch = "api_thread_logs" =>
               Len(resp.body.obj.content) <= ThreadLogsCeiling
        /\ resp.branch = "api_events" => Len(resp.body.items) <= EventsCeiling

\* C2: for every id that matches no row of the threads table (every id when
\* the store is absent or the query fails), GET /api/thread/{id} is answered
\* with status 200 and the body {"error": "Thread not found"}.
C2_MissingThreadAnswered ==
    \A id \in Ids :
        (Responded /\ req.path = DetailPath(id) /\ (db.state # "ok" \/ ~HasRow(id)))
            => Answered200 /\ resp.body = NotFoundBody

\* C3: no Read Access Layer operation raises to its caller; whenever the store
\* cannot be read (missing, unopenable, failing) or the log file cannot, the
\* operation returns its empty result (empty list, 0, empty text).
C3_ReadLayerNeverRaises ==
    Responded =>
        \A i \in DOMAIN resp.calls :
            LET c == resp.calls[i] IN
            /\ ~c.raised
            /\ (c.op = "query_db" /\ db.state # "ok") => c.val = <<>>
            /\ (c.op = "scalar_db" /\ db.state # "ok") => c.val = 0
            /\ (c.op = "read_log_file" /\ FileAt(c.args[1]).st # "ok") => c.val = <<>>

\* C4: with no store file, every scalar_db call returns 0 and every query_db
\* call the empty list, none raises and none opens a connection; so the list
\* handlers (threads, events, worktrees) answer [] and every count of
\* /api/status is 0.
C4_AbsentStoreEmpty ==
    (Responded /\ db.state = "absent") =>
        /\ \A i \in CallsOf({"query_db", "scalar_db"}) :
              LET c == resp.calls[i] IN
              /\ ~c.raised /\ c.opened = 0
              /\ c.val = (IF c.op = "query_db" THEN <<>> ELSE 0)
        /\ (resp.invoked /\ resp.branch \in {"api_threads", "api_events", "api_worktrees"})
              => Answered200 /\ resp.body = Array(<<>>)
        /\ resp.branch = "api_status" =>
              /\ Answered200
              /\ resp.body.obj.threads = [total |-> 0, running |-> 0, ready |-> 0]
              /\ resp.body.obj.events_pending = 0
C4_Witness ==
    /\ Responded /\ db.state = "absent" /\ resp.branch = "api_status"
    /\ Len(resp.calls) = 6 /\ resp.body.obj.threads.total = 0

\* C5: every GET whose path matches a route is answered with status 200,
\* whatever its query string (a lines or limit value that is no integer
\* included); no such request is left unanswered.
C5_RoutedAnswered200 ==
    (Responded /\ resp.branch # "none") => Answered200


\* the route table: the exact paths and the /api/thread/ prefix
ExactRoutes == {RootPath, IndexPath, StatusPath, ThreadsPath, EventsPath,
                WorktreesPath, LogsPath}
MatchesRoute(path) == path \in ExactRoutes \/ startswith(path, ThreadPrefix)
Handlers == {"index", "api_status", "api_threads", "api_thread_logs",
             "api_thread_detail", "api_events", "api_worktrees", "api_logs"}

\* C6: a GET whose path matches no route ends in 404 with no handler and no
\* Read Access Layer operation invoked; every path has exactly one outcome,
\* the arm of one handler or 404.
C6_UnmatchedIs404 ==
    Responded =>
        /\ ~MatchesRoute(req.path) =>
              resp.sent /\ resp.status = 404 /\ ~resp.invoked /\ resp.calls = <<>>
        /\ MatchesRoute(req.path) => resp.branch \in Handlers /\ resp.status # 404
        /\ (resp.status = 404) # (resp.branch \in Handlers)
C6_Witness ==
    /\ Responded /\ req.path = <<"/", "api", "/", "thread">>
    /\ resp.sent /\ resp.status = 404 /\ resp.calls = <<>>

\* C7: for every id in the threads table, GET /api/thread/{id} reaches the
\* detail handler with exactly that id and returns that thread's row, and
\* GET /api/thread/{id}/logs reaches the log handler with exactly that id;
\* also for ids such as 'logs', 't1/logs', 't1/logsx', '/api/thread/t1'.
C7_ThreadRoutesExact ==
    \A id \in Ids :
        (Responded /\ db.state = "ok" /\ HasRow(id)) =>
            /\ req.path = DetailPath(id) =>
                  /\ resp.branch = "api_thread_detail" /\ resp.thread_id = id
                  /\ Answered200 /\ resp.body = Object(RowOf(id))
            /\ req.path = ThreadLogsPath(id) =>
                  resp.branch = "api_thread_logs" /\ resp.thread_id = id

\* C8: for every content of a readable (or absent, hence empty) store,
\* /api/status reports threads.total = number of thread rows, threads.running
\* and threads.ready = number of rows of that status, events_pending = number
\* of events with processed = 0; the fixture of 5 threads (2 running, 1 ready,
\* 2 other) gives total 5, running 2, ready 1.
C8_StatusCounts ==
    (Responded /\ resp.branch = "api_status" /\ db.state \in {"ok", "absent"}) =>
        /\ Answered200
        /\ resp.body.obj.threads.total = Len(db.threads)
        /\ resp.body.obj.threads.running =
              Cardinality({i \in DOMAIN db.threads : db.threads[i].status = "running"})
        /\ resp.body.obj.threads.ready =
              Cardinality({i \in DOMAIN db.threads : db.threads[i].status = "ready"})
        /\ resp.body.obj.events_pending =
              Cardinality({i \in DOMAIN db.events : db.events[i].processed = 0})
        /\ db.threads = FixtureThreads =>
              resp.body.obj.threads = [total |-> 5, running |-> 2, ready |-> 1]
C8_Witness ==
    /\ Responded /\ resp.branch = "api_status" /\ db.state = "ok"
    /\ db.threads = FixtureThreads
    /\ resp.body.obj.threads = [total |-> 5, running |-> 2, ready |-> 1]

\* C9: for a readable log file of L lines and a count N >= 1, read_log_file
\* returns exactly the last min(N, L) lines, contiguous and in file order; for
\* a missing or unreadable file it returns the empty text.
C9_TailExact ==
    Responded =>
        \A i \in CallsOf({"read_log_file"}) :
            LET c == resp.calls[i]
                f == FileAt(c.args[1])
                N == c.args[2]
                L == Len(f.lines)
                k == Min(N, L)
            IN  /\ (f.st = "ok" /\ N >= 1) =>
                      /\ ~c.raised /\ Len(c.val) = k
                      /\ \A j \in 1..k : c.val[j] = f.lines[L - k + j]
                /\ f.st # "ok" => ~c.raised /\ c.val = <<>>
\* 10 lines with lines=3: exactly the last 3
C9_Witness ==
    /\ Responded /\ req.path = LogsPath /\ req.query.lines = QInt(3)
    /\ logs.orch = File(Numbered(TestLogLen)) /\ TestLogLen >= 3
    /\ resp.body.obj.content = <<TestLogLen - 2, TestLogLen - 1, TestLogLen>>

\* the root every data-reading handler of the last request worked under
UsedRoot == resp.root
ReadsData == Responded /\ resp.invoked /\ resp.branch # "index"

\* C10 as claimed: the override if CT_DATA_DIR is set, else ./.claude-threads
\* if it exists, else ~/.claude-threads if it exists, else ./.claude-threads;
\* resolved at start and used by every later request.
C10_OverrideIfSet ==
    /\ boot.environ # NoEnv => DATA_DIR = boot.environ
    /\ (boot.environ = NoEnv /\ boot.local) => DATA_DIR = LocalDir
    /\ (boot.environ = NoEnv /\ ~boot.local /\ boot.home) => DATA_DIR = HomeDir
    /\ (boot.environ = NoEnv /\ ~boot.local /\ ~boot.home) => DATA_DIR = LocalDir
    /\ ReadsData => UsedRoot = DATA_DIR

\* C10, amended: the override if CT_DATA_DIR is set to a non-empty value; an
\* unset or empty CT_DATA_DIR leaves the choice to the directories.  The root
\* is the one resolved from the environment at start, in every later request,
\* whatever the environment and the directories have become.
C10_ResolvedOnce ==
    LET none == boot.environ \in {NoEnv, ""} IN
    /\ ~none => DATA_DIR = boot.environ
    /\ (none /\ boot.local) => DATA_DIR = LocalDir
    /\ (none /\ ~boot.local /\ boot.home) => DATA_DIR = HomeDir
    /\ (none /\ ~boot.local /\ ~boot.home) => DATA_DIR = LocalDir
    /\ ReadsData => UsedRoot = DATA_DIR
C10_Witness ==
    /\ ReadsData /\ UsedRoot = HomeDir
    /\ boot.environ = NoEnv /\ ~boot.local /\ boot.home
    /\ environ = "/srv/ct" /\ localExists /\ ~homeExists

\* a PID file that names no process: absent, not a number, or the positive id
\* of no process in the process table
NamesNoProcess(pid_file) ==
    \/ pid_file.k \in {"missing", "text"}
    \/ /\ pid_file.k = "int" /\ pid_file.v > 0
       /\ pid_file.v \notin (Procs.own \cup Procs.foreign)

\* C11: is_pid_running returns False, and raises nothing, whenever the PID
\* file is missing, holds a non-numeric value, or names a process id for which
\* no process exists.
C11_NoProcessIsFalse ==
    \A i \in CallsOf({"is_pid_running"}) :
        LET c == resp.calls[i] IN
        /\ ~c.raised
        /\ NamesNoProcess(c.args[1]) => c.val = FALSE
\* /api/status with a live orchestrator and the PID of a dead API server
C11_Witness ==
    /\ Responded /\ req.path = StatusPath /\ Answered200
    /\ pids = Pids(PidInt(4242), PidInt(4243))
    /\ resp.body.obj.orchestrator_running = TRUE
    /\ resp.body.obj.api_running = FALSE

----------------------------------------------------------------------------
(* Properties of the page                                                  *)

\* the fetches the step issued
IssuedNow == inflight' (-) inflight
\* the step is the continuation of a fetch that gave null
FailedFetch == Response /\ used' = used + 1

\* C12: when a fetch fails the failure stays in fetchAPI, and the region the
\* fetch was for (status, threads, worktrees, events, log viewer, thread
\* detail) keeps exactly the content it showed: no region changes.
C12_FailedFetchKeepsContent == [][FailedFetch => dom' = dom]_vars

\* C13: selecting a thread sets selectedThreadId to the clicked id and issues
\* at once a fetch of that thread's detail and, when the log panel is in
\* 'thread' mode, a fetch of that thread's logs.
C13_SelectFetchesDetailAndLogs ==
    [][selectThread =>
         /\ selectedThreadId'.kind = "string"
         /\ BagIn(FDetail(selectedThreadId'.v), IssuedNow)
         /\ currentLogType = "thread" =>
               BagIn(FThreadLogs(selectedThreadId'.v), IssuedNow)]_vars

\* C14 as claimed: every showLog sets currentLogType and issues at once exactly
\* one log fetch, for the new source, also when no thread is selected.
C14_SwitchFetchesOnce ==
    [][showLog =>
         /\ BagCardinality(IssuedNow) = 1
         /\ \E f \in BagToSet(IssuedNow) :
               /\ f.fn = "refreshLogs"
               /\ currentLogType' = "orchestrator" => f.path = LogsPath
               /\ currentLogType' = "thread" =>
                     startswith(f.path, ThreadPrefix) /\ endswith(f.path, LogsSuffix)]_vars

\* C14, amended: every showLog sets currentLogType and issues at once exactly
\* one log fetch for the new source when that source is the orchestrator or a
\* thread is selected; a switch to 'thread' with no thread selected issues no
\* fetch and puts the prompt to select a thread in the viewer.
C14_SwitchFetchesOnceIfSource ==
    [][showLog =>
         /\ currentLogType' \in {"orchestrator", "thread"}
         /\ currentLogType' = "orchestrator" => IssuedNow = SetToBag({FLogs})
         /\ (currentLogType' = "thread" /\ selectedThreadId # JsNull) =>
               IssuedNow = SetToBag({FThreadLogs(selectedThreadId.v)})
         /\ (currentLogType' = "thread" /\ selectedThreadId = JsNull) =>
               /\ IssuedNow = EmptyBag
               /\ dom'.viewer = SelectAThread]_vars
\* the log panel switched to the selected thread, its log fetch in flight
C14_Witness ==
    /\ currentLogType = "thread" /\ selectedThreadId = Str(T1)
    /\ BagIn(FThreadLogs(T1), inflight)
    /\ dom.viewer # SelectAThread

\* a step of the server on a request
RequestStep == phase' # phase /\ phase' # "idle"

\* C15: no request creates, modifies or deletes the monitored state: the store
\* file (not created when absent, nor when it disappears between the existence
\* check and the open), the log files and the PID files are as they were
\* after every step of every handler.
C15_RequestsLeaveStateAlone ==
    [][RequestStep => db' = db /\ logs' = logs /\ pids' = pids]_vars

\* the step renders the thread table: refreshThreads runs on from its await
\* with data
ThreadsRendered ==
    /\ CopiesIn(FThreads, inflight') = CopiesIn(FThreads, inflight) - 1
    /\ used' = used

\* C16: rendering the thread table twice from the same thread list gives the
\* same output, whatever happened between the two renders (time passing, a
\* change of selectedThreadId).
C16_RenderIdempotent ==
    [][(ThreadsRendered /\ dom.threads.kind = "rows"
                        /\ dom'.threads.data = dom.threads.data)
          => dom'.threads.out = dom.threads.out]_vars

\* no fetch is in flight
Settled == inflight = EmptyBag
\* the viewer shows lines (or 'No logs available') read from the log at path
ShowsLogOf(path) ==
    dom.viewer.kind \in {"log", "No logs available"} /\ dom.viewer.of = path

\* C17: once every fetch in flight has resolved, the log viewer shows the log
\* of the active source: the orchestrator log when currentLogType is
\* 'orchestrator', the log of thread selectedThreadId when it is 'thread'
\* (a viewer left at 'Failed to load logs' by a failed fetch is not counted).
C17_ViewerShowsActiveSource ==
    (Settled /\ dom.viewer # FailedToLoad) =>
        /\ currentLogType = "orchestrator" => ShowsLogOf(LogsPath)
        /\ (currentLogType = "thread" /\ selectedThreadId # JsNull) =>
              ShowsLogOf(ThreadLogsPath(selectedThreadId.v))

\* C18: once every fetch in flight has resolved, the thread detail shows the
\* thread whose id is selectedThreadId, or 'Thread not found': after A then B
\* were selected the detail of A does not remain.
C18_DetailShowsSelected ==
    (Settled /\ selectedThreadId # JsNull) =>
        \/ dom.detail = ThreadNotFound
        \/ dom.detail.kind = "detail" /\ dom.detail.thread.id = selectedThreadId.v

\* the four fetches of refreshAll
PanelFetches == {FStatus, FThreads, FWorktrees, FEvents}
\* what a round issues under the log type: one fetch per panel, and the
\* orchestrator log when that is the active source
RoundFetches(type) ==
    SetToBag(PanelFetches \cup (IF type = "orchestrator" THEN {FLogs} ELSE {}))

\* C19: a refresh round is issued on every third timer tick and on no other;
\* a round issues one fetch each for status, threads, worktrees and events
\* and one orchestrator-log fetch exactly when currentLogType is
\* 'orchestrator' at that tick, never a thread-log fetch; countdown is within
\* 0..3 in every reachable state.
C19_RoundEveryThirdTick ==
    /\ [](countdown \in 0..3)
    /\ [][Tick => IssuedNow = (IF clock' % 3 = 0 THEN RoundFetches(currentLogType)
                               ELSE EmptyBag)]_vars
\* the round of the third tick, issued with the log panel on a selected
\* thread: no log fetch in it
C19_Witness ==
    /\ clock = 3 /\ countdown = 3
    /\ currentLogType = "thread" /\ selectedThreadId = Str(T1)
    /\ \A f \in PanelFetches \ {FThreads} : CopiesIn(f, inflight) = 2
    /\ CopiesIn(FThreads, inflight) = 1
    /\ ~BagIn(FLogs, inflight) /\ ~BagIn(FThreadLogs(T1), inflight)

\* the step is the arrival of the response to f: only a response takes a
\* fetch out of flight, and a failed one is counted in used
Arrived(f) == inflight' = inflight (-) SetToBag({f}) /\ used' = used

\* the region a fetch is for shows what its response carried
Rendered(f) ==
    CASE f.fn = "refreshStatus" -> dom'.stats.kind = "stats"
      [] f.fn = "refreshThreads" -> dom'.threads.kind = "rows"
      [] f.fn = "refreshWorktrees" -> dom'.worktrees.kind = "rows"
      [] f.fn = "refreshEvents" -> dom'.events.kind = "rows"
      [] f.fn = "selectThread" -> dom'.detail.kind \in {"detail", "Thread not found"}
      [] f.fn = "refreshLogs" -> dom'.viewer.kind \in {"log", "No logs available"}

\* C20: the fetches of a round are all issued in the tick itself, before any
\* response is awaited; a response that arrives renders its own region at
\* once, whatever else is in flight; and the timer ticks on whatever is in
\* flight, the round of the third tick being issued in full over fetches
\* still unresolved.
C20_RoundsDoNotWait ==
    /\ [](clock < MaxTicks => ENABLED Tick)
    /\ [][(Tick /\ clock' % 3 = 0) =>
            \A f \in PanelFetches : CopiesIn(f, inflight') = CopiesIn(f, inflight) + 1]_vars
    /\ [][\A f \in BagToSet(inflight) : Arrived(f) => Rendered(f)]_vars
\* the round of the third tick issued while the thread list asked for at page
\* load is still awaited, the status and the events already on the page
C20_Witness ==
    /\ clock = 3 /\ countdown = 3
    /\ CopiesIn(FThreads, inflight) = 2
    /\ CopiesIn(FStatus, inflight) = 1 /\ dom.stats.kind = "stats"
    /\ CopiesIn(FEvents, inflight) = 1 /\ dom.events.kind = "rows"

\* the step is a timer tick
TimerStep == clock' # clock
\* the step is the arrival of a response, successful or failed
ArrivalStep == BagCardinality(inflight') < BagCardinality(inflight)
\* the rows of the thread table that carry the 'selected' class
MarkedRows(table) == {table.rows[i].id : i \in {k \in DOMAIN table.rows : table.rows[k].selected}}

\* C21: timer ticks, refresh rounds and the arrival of any response,
\* successful or failed, leave selectedThreadId and currentLogType unchanged;
\* and after every render of the threads table the rows marked selected are
\* exactly the rows whose id equals selectedThreadId as it is at the render.
C21_RefreshKeepsSelection ==
    /\ [][(TimerStep \/ ArrivalStep) =>
             /\ selectedThreadId' = selectedThreadId
             /\ currentLogType' = currentLogType]_vars
    /\ [][ThreadsRendered =>
             MarkedRows(dom'.threads) =
                {dom'.threads.rows[i].id : i \in
                    {k \in DOMAIN dom'.threads.rows :
                        Str(dom'.threads.rows[k].id) = selectedThreadId'}}]_vars
\* the table rendered after a thread was selected, with the log panel on the
\* thread source: the row of the selected thread came out marked
C21_Witness ==
    /\ selectedThreadId = Str(T1) /\ currentLogType = "thread"
    /\ dom.threads.kind = "rows"
    /\ \E i \in DOMAIN dom.threads.out :
          dom.threads.out[i].id = T1 /\ dom.threads.out[i].selected

\* the calls of the request that went to the store, and those that read a file
StoreCalls == CallsOf({"query_db", "scalar_db"})
FileCalls == CallsOf({"read_log_file", "is_pid_running"})
\* connections and file handles still open after the calls of the request
HeldOpen ==
    Cardinality({i \in DOMAIN resp.calls : resp.calls[i].opened > resp.calls[i].closed})

\* C22: every store connection and file handle opened while serving a request
\* is released before the operation that opened it returns, on every exit
\* path (rows, no rows, statement error, unreadable content): once a request
\* is served no call holds anything open, and every call that reached the
\* store did so on one connection of its own.
C22_HandlesReleased ==
    Responded =>
        /\ HeldOpen = 0
        /\ \A i \in DOMAIN resp.calls :
              resp.calls[i].opened = resp.calls[i].closed /\ resp.calls[i].opened <= 1
        /\ \A i \in StoreCalls :
              (db.state \in {"ok", "failing", "created"}) => resp.calls[i].opened = 1
\* /api/status served from a store whose every statement raises: four
\* connections opened, four closed, and the two PID files opened and closed
C22_Witness ==
    /\ Responded /\ db.state = "failing" /\ resp.branch = "api_status"
    /\ Cardinality({i \in StoreCalls : resp.calls[i].opened = 1
                                       /\ resp.calls[i].closed = 1}) = 4
    /\ \E i \in FileCalls : resp.calls[i].opened = 1 /\ resp.calls[i].closed = 1

\* the PID file holds the decimal id of one process that exists, whether or
\* not the server may signal it
NamesLiveProcess(pid_file) ==
    /\ pid_file.k = "int" /\ pid_file.v > 0
    /\ pid_file.v \in (Procs.own \cup Procs.foreign)

\* C23: is_pid_running returns True if and only if the PID file contains the
\* decimal id of one process that currently exists: not for 0 or a negative
\* number, which name no single process, and not False for an existing
\* process the server lacks permission to signal.
C23_TrueIffLiveProcess ==
    \A i \in CallsOf({"is_pid_running"}) :
        (resp.calls[i].val = TRUE) <=> NamesLiveProcess(resp.calls[i].args[1])

\* C24: after every timer tick the countdown shown in #refresh-countdown
\* equals the countdown variable, so the visible countdown cycles through
\* 3, 2, 1 between refreshes and never shows 0 or skips 3.
C24_DisplayIsCountdown ==
    /\ dom.countdown = countdown
    /\ dom.countdown \in 1..RefreshPeriod

====
